---- MODULE Spec2Model ----
(***************************************************************************)
(* Model of GceManager (cluster-autoscaler/cloudprovider/gce/gce_manager.go) *)
(* the registry of managed instance groups (migs), the instance -> Mig      *)
(* cache (migCache), node pool discovery and the mutating operations.       *)
(*                                                                          *)
(* Strings whose characters the code inspects (names, URLs) are sequences   *)
(* of one-character strings, so that strings.HasPrefix and                  *)
(* strings.Contains are computed, not assumed.                              *)
(***************************************************************************)
EXTENDS Integers, Sequences, FiniteSets, TLC

VARIABLES
    mode,        \* GceManager.mode
    migs,        \* GceManager.migs: sequence of migInformation
    migCache,    \* GceManager.migCache: map[GceRef]*Mig
    allocated,   \* the number of Mig objects allocated so far
    cloudOwner,  \* the cloud: instance -> name of the managed group owning it
    nodePools,   \* the cluster: the node pools NodePools.List returns
    scanned,     \* what the cloud reported in the scan that built migCache
    registered,  \* per group identity, the Mig of the last RegisterMig call
    last,        \* the last operation called and what it returned
    \* one call of waitForOp
    wpc,         \* where the call is: "idle", "cond", "poll", "sleep", "returned"
    elapsed,     \* time.Since(start), in milliseconds
    polls,       \* the number of ZoneOperations.Get calls made
    sleeps,      \* the number of time.Sleep calls made
    failedPolls, \* the number of ZoneOperations.Get calls that failed
    firstPoll,   \* what the first ZoneOperations.Get call answered
    lastPoll,    \* what the latest ZoneOperations.Get call answered
    wret,        \* what waitForOp returned
    \* the goroutines that use one manager
    cacheMutex,  \* GceManager.cacheMutex: the goroutine holding it, or Free
    migsMutex,   \* GceManager.migsMutex: the goroutine holding it, or Free
    pc,          \* per goroutine, the statement it is at
    frame,       \* per goroutine, the local variables of its call stack
    built        \* what the cloud reported to the last scan that was installed

managerVars == <<mode, migs, migCache, allocated, cloudOwner, nodePools, scanned,
                 registered, last>>
waitVars == <<wpc, elapsed, polls, sleeps, failedPolls, firstPoll, lastPoll, wret>>
threadVars == <<cacheMutex, migsMutex, pc, frame, built>>

vars == <<managerVars, waitVars, threadVars>>

(***************************************************************************)
(* Bounds of the model.                                                     *)
(***************************************************************************)
\* longest instance list handed to DeleteInstances
MaxDelete == 2
\* most Mig objects allocated in one behaviour
MaxMigs == 2
\* longest ZoneOperations.Get call, in poll intervals
MaxPollLatency == 1

(***************************************************************************)
(* Constants of the program.                                                *)
(***************************************************************************)
ModeGCE == "gce"
ModeGKE == "gke"

operationWaitTimeout == 5000
operationPollInterval == 100
nodeAutoprovisioningPrefix ==
    <<"n","o","d","e","a","u","t","o","p","r","o","v","i","s","i","o","n","i","n","g">>

\* bounds given to autoprovisioned node pools (declared outside gce_manager.go)
minAutoprovisionedSize == 0
maxAutoprovisionedSize == 1000

(***************************************************************************)
(* Errors. NoErr is Go's nil error; Panic is a run-time panic.              *)
(***************************************************************************)
NoErr          == "nil"
ErrGet         == "InstanceGroupManagers.Get failed"
ErrList        == "InstanceGroupManagers.ListManagedInstances failed"
ErrParse       == "ParseInstanceUrl failed"
ErrParseGceUrl == "parseGceUrl failed"
ErrLookup      == "Error while looking for MIG for instance"
ErrNotInMig    == "Instance does not belong to any configured MIG"
ErrCrossMig    == "Connot delete instances which don't belong to the same MIG."
ErrDeleteReq   == "InstanceGroupManagers.DeleteInstances failed"
ErrResize      == "InstanceGroupManagers.Resize failed"
ErrNodePools   == "NodePools.List failed"
ErrTimeout     == "Timeout while waiting for operation"
Panic          == "panic"

(***************************************************************************)
(* The world: one project, two zones, three managed instance groups and     *)
(* four instances.                                                         *)
(***************************************************************************)
Ref(p, z, n) == [Project |-> p, Zone |-> z, Name |-> n]

G1 == Ref("p1", "z1", <<"g","1">>)
G2 == Ref("p1", "z1", <<"g","2">>)
G3 == Ref("p1", "z1", <<"g","3">>)
GroupRefs == {G1, G2, G3}

\* BaseInstanceName the cloud holds for each group
BaseInstanceName(g) ==
    IF g = G1 THEN <<"a">> ELSE IF g = G2 THEN <<"b">> ELSE <<"c">>

IA1 == Ref("p1", "z1", <<"a","1">>)
IB1 == Ref("p1", "z1", <<"b","1">>)
IX1 == Ref("p1", "z1", <<"x","1">>)   \* no group's base name prefixes it
IY1 == Ref("p1", "z2", <<"a","1">>)   \* in a zone without groups
Instances == {IA1, IB1, IX1, IY1}
\* the order in which the cloud lists managed instances
InstanceOrder == <<IA1, IB1, IX1, IY1>>

NoOwner == Ref("", "", <<>>)

HasPrefix(s, prefix) ==
    /\ Len(prefix) <= Len(s)
    /\ SubSeq(s, 1, Len(prefix)) = prefix

Contains(s, substr) ==
    \E i \in 0..(Len(s) - Len(substr)) :
        SubSeq(s, i + 1, i + Len(substr)) = substr

\* The cloud names the instances of a managed group after its base name:
\* the groups that may own instance i.
MayOwn(i) ==
    {g \in GroupRefs : /\ g.Project = i.Project
                       /\ g.Zone = i.Zone
                       /\ HasPrefix(i.Name, BaseInstanceName(g))}

(***************************************************************************)
(* URLs. A URL is the sequence of its path segments after the API root:     *)
(* projects/{P}/zones/{Z}/{collection}/{name}.                              *)
(***************************************************************************)
GenerateInstanceUrl(project, zone, name) ==
    <<"projects", project, "zones", zone, "instances", name>>

GenerateMigUrl(project, zone, name) ==
    <<"projects", project, "zones", zone, "instanceGroupManagers", name>>

\* a URL that lacks its last two segments
MalformedUrl == <<"projects", "p1", "zones", "z1">>

parseGceUrl(url, expectedResource) ==
    IF /\ Len(url) = 6
       /\ url[1] = "projects"
       /\ url[3] = "zones"
       /\ url[5] = expectedResource
    THEN [err |-> NoErr, ref |-> Ref(url[2], url[4], url[6])]
    ELSE [err |-> ErrParseGceUrl, ref |-> NoOwner]

ParseInstanceUrl(url) ==
    LET r == parseGceUrl(url, "instances")
    IN  [err |-> IF r.err = NoErr THEN NoErr ELSE ErrParse, ref |-> r.ref]

(***************************************************************************)
(* Mig objects. ptr is the address of the object: the code compares and     *)
(* stores *Mig pointers. The n-th Mig object allocated has address n;       *)
(* NilMig is the nil pointer.                                               *)
(***************************************************************************)
NewMig(ptr, ref, minSize, maxSize, autoprovisioned) ==
    [ptr |-> ptr, GceRef |-> ref, minSize |-> minSize, maxSize |-> maxSize,
     exist |-> TRUE, autoprovisioned |-> autoprovisioned]

NilMig == [ptr |-> 0, GceRef |-> NoOwner, minSize |-> 0, maxSize |-> 0,
           exist |-> FALSE, autoprovisioned |-> FALSE]

(***************************************************************************)
(* getMigs: a copy of the registry, record by record.                       *)
(***************************************************************************)
getMigs(m) ==
    [k \in 1..Len(m) |-> [basename |-> m[k].basename, config |-> m[k].config]]

(***************************************************************************)
(* The cloud's answers. A failure plan names the collaborator call that     *)
(* fails: the call made for the group at index `group` of the snapshot      *)
(* (0: no call fails).                                                      *)
(***************************************************************************)
NoFail == [group |-> 0, call |-> "none"]
FailCalls == {"Get", "ListManagedInstances", "ParseInstanceUrl"}
FailPlans(n) == {NoFail} \cup {[group |-> k, call |-> c] : k \in 1..n, c \in FailCalls}

Fails(fail, k, c) == fail.group = k /\ fail.call = c

\* ListManagedInstances: the URLs of the instances the cloud holds for ref;
\* with `bad`, the answer carries one URL that does not parse.
ListManagedInstances(owner, ref, bad) ==
    LET members == SelectSeq(InstanceOrder, LAMBDA i : owner[i] = ref)
        urls == [k \in 1..Len(members) |->
                    GenerateInstanceUrl(members[k].Project, members[k].Zone, members[k].Name)]
    IN  IF bad THEN urls \o <<MalformedUrl>> ELSE urls

(***************************************************************************)
(* regenerateCache (lines 342-371).                                         *)
(***************************************************************************)
\* lines 360-366: the loop over one group's managed instances
RECURSIVE AddInstances(_, _, _, _)
AddInstances(urls, j, mig, newMigCache) ==
    IF j > Len(urls) THEN [err |-> NoErr, cache |-> newMigCache]
    ELSE LET Parsed(p) ==
                 IF p.err # NoErr
                 THEN [err |-> p.err, cache |-> newMigCache]
                 ELSE AddInstances(urls, j + 1, mig, (p.ref :> mig) @@ newMigCache)
         IN  Parsed(ParseInstanceUrl(urls[j]))

\* lines 345-367: the loop over the snapshot, from index k on. snap is the
\* caller's copy of the registry; basename is written into the copy.
RECURSIVE ScanMigs(_, _, _, _, _, _)
ScanMigs(snap, k, newMigCache, calls, owner, fail) ==
    IF k > Len(snap)
    THEN [err |-> NoErr, cache |-> newMigCache, calls |-> calls, snap |-> snap]
    ELSE
      LET mig == snap[k].config
      IN  IF Fails(fail, k, "Get")
          THEN [err |-> ErrGet, cache |-> newMigCache, calls |-> calls + 1, snap |-> snap]
          ELSE
            LET snap2 == [snap EXCEPT ![k].basename = BaseInstanceName(mig.GceRef)]
            IN  IF Fails(fail, k, "ListManagedInstances")
                THEN [err |-> ErrList, cache |-> newMigCache, calls |-> calls + 2,
                      snap |-> snap2]
                ELSE
                  LET urls == ListManagedInstances(owner, mig.GceRef,
                                                   Fails(fail, k, "ParseInstanceUrl"))
                      Added(r) ==
                          IF r.err # NoErr
                          THEN [err |-> r.err, cache |-> r.cache, calls |-> calls + 2,
                                snap |-> snap2]
                          ELSE ScanMigs(snap2, k + 1, r.cache, calls + 2, owner, fail)
                  IN  Added(AddInstances(urls, 1, mig, newMigCache))

EmptyCache == [i \in {} |-> NilMig]

\* The manager after regenerateCache: m.migCache is assigned at line 369 and
\* only there; m.migs is not assigned (basename went into getMigs' copies).
\* partial is the map built so far, which the code drops on an error.
regenerateCache_installsPartial(cache, m, owner, fail) ==
    LET Scanned(r) ==
            [err |-> r.err, migCache |-> r.cache, migs |-> m, calls |-> r.calls]
    IN  Scanned(ScanMigs(getMigs(m), 1, EmptyCache, 0, owner, fail))

regenerateCache_firstMigOwnsAll(cache, m, owner, fail) ==
    LET Scanned(r) ==
            [err |-> r.err,
             migCache |-> IF r.err = NoErr
                          THEN [i \in DOMAIN r.cache |-> m[1].config]
                          ELSE cache,
             migs |-> m, calls |-> r.calls]
    IN  Scanned(ScanMigs(getMigs(m), 1, EmptyCache, 0, owner, fail))

regenerateCache(cache, m, owner, fail) ==
    LET Scanned(r) ==
            [err |-> r.err,
             migCache |-> IF r.err = NoErr THEN r.cache ELSE cache,
             migs |-> m, calls |-> r.calls]
    IN  Scanned(ScanMigs(getMigs(m), 1, EmptyCache, 0, owner, fail))

(***************************************************************************)
(* GetMigForInstance (lines 318-340). found: the fast path of line 321.     *)
(* regens counts the regenerateCache calls made, calls the collaborator     *)
(* calls made.                                                              *)
(***************************************************************************)
\* lines 326-328: the condition under which a record forces a regeneration
MayBelongTo(migInfo, instance) ==
    /\ migInfo.config.GceRef.Project = instance.Project
    /\ migInfo.config.GceRef.Zone = instance.Zone
    /\ HasPrefix(instance.Name, migInfo.basename)

GetMigForInstance_nilWhenAbsent(cache, m, owner, instance, fail) ==
    IF instance \in DOMAIN cache
    THEN [mig |-> cache[instance], err |-> NoErr, migCache |-> cache,
          calls |-> 0, regens |-> 0, regenErr |-> NoErr]
    ELSE
      LET snap == getMigs(m)
      IN  IF \E k \in 1..Len(snap) : MayBelongTo(snap[k], instance)
          THEN
            LET Regenerated(r) ==
                    IF r.err # NoErr
                    THEN [mig |-> NilMig, err |-> ErrLookup, migCache |-> r.migCache,
                          calls |-> r.calls, regens |-> 1, regenErr |-> r.err]
                    ELSE [mig |-> IF instance \in DOMAIN r.migCache
                                  THEN r.migCache[instance] ELSE NilMig,
                          err |-> NoErr, migCache |-> r.migCache,
                          calls |-> r.calls, regens |-> 1, regenErr |-> NoErr]
            IN  Regenerated(regenerateCache(cache, m, owner, fail))
          ELSE [mig |-> NilMig, err |-> NoErr, migCache |-> cache,
                calls |-> 0, regens |-> 0, regenErr |-> NoErr]

GetMigForInstance(cache, m, owner, instance, fail) ==
    IF instance \in DOMAIN cache
    THEN [mig |-> cache[instance], err |-> NoErr, migCache |-> cache,
          calls |-> 0, regens |-> 0, regenErr |-> NoErr]
    ELSE
      LET snap == getMigs(m)
      IN  IF \E k \in 1..Len(snap) : MayBelongTo(snap[k], instance)
          THEN
            LET Regenerated(r) ==
                    IF r.err # NoErr
                    THEN [mig |-> NilMig, err |-> ErrLookup, migCache |-> r.migCache,
                          calls |-> r.calls, regens |-> 1, regenErr |-> r.err]
                    ELSE IF instance \in DOMAIN r.migCache
                    THEN [mig |-> r.migCache[instance], err |-> NoErr,
                          migCache |-> r.migCache,
                          calls |-> r.calls, regens |-> 1, regenErr |-> NoErr]
                    ELSE [mig |-> NilMig, err |-> ErrNotInMig, migCache |-> r.migCache,
                          calls |-> r.calls, regens |-> 1, regenErr |-> NoErr]
            IN  Regenerated(regenerateCache(cache, m, owner, fail))
          ELSE [mig |-> NilMig, err |-> NoErr, migCache |-> cache,
                calls |-> 0, regens |-> 0, regenErr |-> NoErr]

(***************************************************************************)
(* RegisterMig (lines 199-229). templateErr: whether the template builder   *)
(* fails; the code logs the failure and goes on.                            *)
(***************************************************************************)
Updated(m, mig) == \E i \in 1..Len(m) : m[i].config.GceRef = mig.GceRef

RegisterMig_alwaysAppends(m, mig, templateErr) ==
    [migs |-> Append(m, [config |-> mig, basename |-> <<>>]),
     ret |-> ~Updated(m, mig)]

RegisterMig_keepsFirstConfig(m, mig, templateErr) ==
    [migs |-> IF Updated(m, mig) THEN m
              ELSE Append(m, [config |-> mig, basename |-> <<>>]),
     ret |-> ~Updated(m, mig)]

RegisterMig_failsWithTemplate(m, mig, templateErr) ==
    LET updated == Updated(m, mig)
        m2 == [i \in 1..Len(m) |->
                 IF m[i].config.GceRef = mig.GceRef
                 THEN [m[i] EXCEPT !.config = mig] ELSE m[i]]
    IN  [migs |-> IF updated THEN m2
                  ELSE Append(m, [config |-> mig, basename |-> <<>>]),
         ret |-> ~updated /\ ~templateErr]

RegisterMig(m, mig, templateErr) ==
    LET updated == Updated(m, mig)
        m2 == [i \in 1..Len(m) |->
                 IF m[i].config.GceRef = mig.GceRef
                 THEN [m[i] EXCEPT !.config = mig] ELSE m[i]]
    IN  [migs |-> IF updated THEN m2
                  ELSE Append(m, [config |-> mig, basename |-> <<>>]),
         ret |-> ~updated]

(***************************************************************************)
(* fetchAllNodePools (lines 154-196).                                       *)
(***************************************************************************)
NoAutoscaling == [present |-> FALSE, Enabled |-> FALSE,
                  MinNodeCount |-> 0, MaxNodeCount |-> 0]
Autoscaling(enabled, min, max) ==
    [present |-> TRUE, Enabled |-> enabled, MinNodeCount |-> min, MaxNodeCount |-> max]

NodePool(name, autoscaling, urls) ==
    [Name |-> name, Autoscaling |-> autoscaling, InstanceGroupUrls |-> urls]

\* line 162: strings.Contains("name", nodeAutoprovisioningPrefix)
IsAutoprovisioned(nodePool) ==
    Contains(<<"n","a","m","e">>, nodeAutoprovisioningPrefix)

\* line 163
IsAutoscaled(nodePool) ==
    nodePool.Autoscaling.present /\ nodePool.Autoscaling.Enabled

\* lines 169-192: the loop over one pool's instance group URLs
RECURSIVE RegisterUrls(_, _, _, _, _, _, _)
RegisterUrls(nodePool, j, m, heap, regs, rets, templateErr) ==
    IF j > Len(nodePool.InstanceGroupUrls)
    THEN [err |-> NoErr, migs |-> m, regs |-> regs, rets |-> rets]
    ELSE
      LET p == parseGceUrl(nodePool.InstanceGroupUrls[j], "instanceGroupManagers")
          autoprovisioned == IsAutoprovisioned(nodePool)
          autoscaled == IsAutoscaled(nodePool)
          ptr == heap + Len(regs) + 1
          mig == IF autoscaled
                 THEN NewMig(ptr, p.ref, nodePool.Autoscaling.MinNodeCount,
                             nodePool.Autoscaling.MaxNodeCount, autoprovisioned)
                 ELSE IF autoprovisioned
                 THEN NewMig(ptr, p.ref, minAutoprovisionedSize,
                             maxAutoprovisionedSize, autoprovisioned)
                 ELSE NewMig(ptr, p.ref, 0, 0, autoprovisioned)
          r == RegisterMig(m, mig, templateErr)
      IN  IF p.err # NoErr
          THEN [err |-> p.err, migs |-> m, regs |-> regs, rets |-> rets]
          ELSE RegisterUrls(nodePool, j + 1, r.migs, heap, Append(regs, mig),
                            Append(rets, r.ret), templateErr)

\* lines 161-194: the loop over the node pools, from index k on
RECURSIVE RegisterPools(_, _, _, _, _, _, _)
RegisterPools(pools, k, m, heap, regs, rets, templateErr) ==
    IF k > Len(pools)
    THEN [err |-> NoErr, migs |-> m, regs |-> regs, rets |-> rets]
    ELSE
      IF ~IsAutoprovisioned(pools[k]) /\ ~IsAutoscaled(pools[k])
      THEN RegisterPools(pools, k + 1, m, heap, regs, rets, templateErr)
      ELSE
        LET r == RegisterUrls(pools[k], 1, m, heap, regs, rets, templateErr)
        IN  IF r.err # NoErr THEN r
            ELSE RegisterPools(pools, k + 1, r.migs, heap, r.regs, r.rets,
                               templateErr)

fetchAllNodePools_rebuilds(md, m, heap, resp, templateErr) ==
    IF md # ModeGKE
    THEN [err |-> Panic, migs |-> m, regs |-> <<>>, rets |-> <<>>]
    ELSE IF resp.err # NoErr
    THEN [err |-> resp.err, migs |-> m, regs |-> <<>>, rets |-> <<>>]
    ELSE RegisterPools(resp.NodePools, 1, <<>>, heap, <<>>, <<>>, templateErr)

\* resp: the answer of NodePools.List; heap: the number of Mig objects
\* allocated before the call. regs: the Migs handed to RegisterMig, in order;
\* rets: what RegisterMig returned for each.
fetchAllNodePools(md, m, heap, resp, templateErr) ==
    IF md # ModeGKE
    THEN [err |-> Panic, migs |-> m, regs |-> <<>>, rets |-> <<>>]
    ELSE IF resp.err # NoErr
    THEN [err |-> resp.err, migs |-> m, regs |-> <<>>, rets |-> <<>>]
    ELSE RegisterPools(resp.NodePools, 1, m, heap, <<>>, <<>>, templateErr)

(***************************************************************************)
(* waitForOp (lines 253-266) returns nil or the timeout error.              *)
(***************************************************************************)
WaitForOpResults == {NoErr, ErrTimeout}

(***************************************************************************)
(* SetMigSize (lines 241-251). resizeErr: the error of the Resize request;  *)
(* waitErr: what waitForOp returns.                                         *)
(***************************************************************************)
SetMigSize(mig, size, resizeErr, waitErr) ==
    IF resizeErr # NoErr
    THEN [err |-> resizeErr, mutating |-> 1, accepted |-> FALSE]
    ELSE [err |-> waitErr, mutating |-> 1, accepted |-> TRUE]

(***************************************************************************)
(* DeleteInstances (lines 269-302).                                         *)
(* failAt, fail: the failAt-th regenerateCache of the call runs under the   *)
(* failure plan fail, the others under NoFail.                              *)
(***************************************************************************)
PlanFor(regens, failAt, fail) == IF regens + 1 = failAt THEN fail ELSE NoFail

\* whether the lookup r replaced the cache (line 369 was reached)
Installs(r) == IF r.regens = 1 /\ r.regenErr = NoErr THEN 1 ELSE 0

\* lines 277-285: the loop over the instances, from index j on. st carries
\* the cache and the counts of collaborator calls and regenerations so far.
RECURSIVE SameMigLoop(_, _, _, _, _, _, _, _)
SameMigLoop(instances, j, commonMig, st, m, owner, failAt, fail) ==
    IF j > Len(instances) THEN [st EXCEPT !.err = NoErr]
    ELSE
      LET Looked(r) ==
              LET st2 == [migCache |-> r.migCache,
                          calls |-> st.calls + r.calls,
                          regens |-> st.regens + r.regens,
                          installs |-> st.installs + Installs(r),
                          err |-> r.err]
              IN  IF r.err # NoErr THEN st2
                  ELSE IF r.mig.ptr # commonMig.ptr
                  THEN [st2 EXCEPT !.err = ErrCrossMig]
                  ELSE SameMigLoop(instances, j + 1, commonMig, st2, m, owner,
                                   failAt, fail)
      IN  Looked(GetMigForInstance(st.migCache, m, owner, instances[j],
                                   PlanFor(st.regens, failAt, fail)))

\* lines 270-285: up to the request. checked: the same-Mig loop was passed.
DeleteInstancesCheck_noLoop(cache, m, owner, instances, failAt, fail) ==
    IF Len(instances) = 0
    THEN [migCache |-> cache, calls |-> 0, regens |-> 0, installs |-> 0,
          err |-> NoErr, commonMig |-> NilMig, checked |-> FALSE]
    ELSE
      LET First(r) ==
              [migCache |-> r.migCache, calls |-> r.calls, regens |-> r.regens,
               installs |-> Installs(r),
               err |-> r.err, commonMig |-> r.mig, checked |-> r.err = NoErr]
      IN  First(GetMigForInstance(cache, m, owner, instances[1],
                                  PlanFor(0, failAt, fail)))

DeleteInstancesCheck(cache, m, owner, instances, failAt, fail) ==
    IF Len(instances) = 0
    THEN [migCache |-> cache, calls |-> 0, regens |-> 0, installs |-> 0,
          err |-> NoErr, commonMig |-> NilMig, checked |-> FALSE]
    ELSE
      LET Passed(st, commonMig) ==
              st @@ [commonMig |-> commonMig, checked |-> st.err = NoErr]
          First(r) ==
              LET st1 == [migCache |-> r.migCache, calls |-> r.calls,
                          regens |-> r.regens, installs |-> Installs(r),
                          err |-> r.err]
              IN  IF r.err # NoErr
                  THEN st1 @@ [commonMig |-> r.mig, checked |-> FALSE]
                  ELSE Passed(SameMigLoop(instances, 1, r.mig, st1, m, owner,
                                          failAt, fail), r.mig)
      IN  First(GetMigForInstance(cache, m, owner, instances[1],
                                  PlanFor(0, failAt, fail)))

\* lines 287-301: the request and the wait, once the loop was passed.
\* commonMig.Project of line 294 dereferences commonMig: a nil pointer panics
\* before the request is sent.
DeleteInstancesRequest(commonMig, instances, reqErr, waitErr) ==
    LET req == [k \in 1..Len(instances) |->
                  GenerateInstanceUrl(instances[k].Project, instances[k].Zone,
                                      instances[k].Name)]
    IN  IF commonMig.ptr = NilMig.ptr
        THEN [err |-> Panic, mutating |-> 0, accepted |-> FALSE, req |-> req]
        ELSE IF reqErr # NoErr
        THEN [err |-> reqErr, mutating |-> 1, accepted |-> FALSE, req |-> req]
        ELSE [err |-> waitErr, mutating |-> 1, accepted |-> TRUE, req |-> req]

(***************************************************************************)
(* The node pools the cluster may list.                                     *)
(***************************************************************************)
MigUrl(g) == GenerateMigUrl(g.Project, g.Zone, g.Name)

\* autoscaling enabled with {min: 1, max: 5}
PoolAutoscaled ==
    NodePool(<<"d","e","f","a","u","l","t">>, Autoscaling(TRUE, 1, 5), <<MigUrl(G1)>>)
\* named with the autoprovisioning prefix, no autoscaling
PoolAutoprovisioned ==
    NodePool(nodeAutoprovisioningPrefix \o <<"-","1">>, NoAutoscaling, <<MigUrl(G2)>>)
\* neither: autoscaling present and disabled
PoolPlain ==
    NodePool(<<"p","l","a","i","n">>, Autoscaling(FALSE, 2, 4), <<MigUrl(G3)>>)
\* autoscaled, with a URL that does not parse after one that does
PoolMalformed ==
    NodePool(<<"b","a","d">>, Autoscaling(TRUE, 0, 3), <<MigUrl(G2), MalformedUrl>>)

Pools == {PoolAutoscaled, PoolAutoprovisioned, PoolPlain, PoolMalformed}

\* the listings: every sequence of distinct pools
Listings ==
    {l \in UNION {[1..n -> Pools] : n \in 0..Cardinality(Pools)} :
        \A a, b \in 1..Len(l) : a # b => l[a] # l[b]}

\* the listing of the scenario: an autoscaled pool, an autoprovisioned pool
\* and a pool that is neither
ScenarioListing == <<PoolAutoscaled, PoolAutoprovisioned, PoolPlain>>

(***************************************************************************)
(* The state machine. Each action is one call of an exported operation (or  *)
(* one run of the background refresher); last records the call and what it  *)
(* returned, scanned and registered record what the cloud reported to the   *)
(* scan behind migCache and which Mig was registered last.                  *)
(***************************************************************************)
NoCall == [op |-> "none", inst |-> NoOwner, mig |-> NilMig, err |-> NoErr,
           calls |-> 0, regens |-> 0, installed |-> FALSE, mutating |-> 0,
           ret |-> FALSE, existed |-> FALSE, templateErr |-> FALSE,
           groups |-> {}, unresolved |-> FALSE, n |-> 0,
           regs |-> <<>>, rets |-> <<>>]

\* what a scan of the registry m reports for each instance: the registered
\* group the cloud lists it under
Reported(m, owner) ==
    [i \in Instances |->
        IF \E k \in 1..Len(m) : m[k].config.GceRef = owner[i]
        THEN owner[i] ELSE NoOwner]

\* the group identities in the registry
RegisteredRefs == {migs[k].config.GceRef : k \in 1..Len(migs)}

CloudStates == {o \in [Instances -> GroupRefs \cup {NoOwner}] :
                   \A i \in Instances : o[i] \in MayOwn(i) \cup {NoOwner}}

\* the manager as CreateGceManager returns it when discovery registered
\* nothing, before the first run of the refresher. The manager is a GKE one:
\* a GCE manager behaves as it does, without fetchAllNodePools.
InitManager ==
    /\ mode = ModeGKE
    /\ migs = <<>>
    /\ migCache = EmptyCache
    /\ allocated = 0
    /\ scanned = [i \in Instances |-> NoOwner]
    /\ registered = [g \in GroupRefs |-> NilMig]
    /\ last = NoCall

\* no call of waitForOp is being followed
NoWait ==
    /\ wpc = "idle"
    /\ elapsed = 0
    /\ polls = 0
    /\ sleeps = 0
    /\ failedPolls = 0
    /\ firstPoll = "none"
    /\ lastPoll = "none"
    /\ wret = NoErr

\* the goroutines are not followed statement by statement
NoThreads ==
    /\ cacheMutex = "free"
    /\ migsMutex = "free"
    /\ pc = <<>>
    /\ frame = <<>>
    /\ built = <<>>

Init ==
    /\ InitManager
    /\ cloudOwner \in CloudStates
    /\ nodePools = ScenarioListing
    /\ NoWait
    /\ NoThreads

\* the cloud adds an instance to a group or removes one, on its own
CloudChange ==
    /\ \E i \in Instances : \E g \in MayOwn(i) \cup {NoOwner} :
          /\ g # cloudOwner[i]
          /\ cloudOwner' = [cloudOwner EXCEPT ![i] = g]
    /\ last' = [NoCall EXCEPT !.op = "cloud"]
    /\ UNCHANGED <<mode, migs, migCache, allocated, nodePools, scanned, registered>>
    /\ UNCHANGED <<waitVars, threadVars>>

\* a caller registers a Mig object it has just built
RegisterMigCall ==
    /\ allocated < MaxMigs
    /\ \E ref \in {G1, G2}, templateErr \in BOOLEAN :
       LET mig == NewMig(allocated + 1, ref, 0, 10, FALSE)
           r == RegisterMig(migs, mig, templateErr)
       IN  /\ migs' = r.migs
           /\ allocated' = allocated + 1
           /\ registered' = [registered EXCEPT ![ref] = mig]
           /\ last' = [NoCall EXCEPT !.op = "RegisterMig", !.mig = mig,
                         !.ret = r.ret,
                         !.existed = (ref \in {migs[k].config.GceRef : k \in 1..Len(migs)}),
                         !.templateErr = templateErr]
           /\ UNCHANGED <<mode, migCache, cloudOwner, nodePools, scanned>>
           /\ UNCHANGED <<waitVars, threadVars>>

\* line 124: fetchAllNodePools runs in GKE mode only
FetchAllNodePoolsCall ==
    /\ mode = ModeGKE
    /\ \E listErr \in {NoErr, ErrNodePools} :
       \E templateErr \in IF listErr = NoErr THEN BOOLEAN ELSE {FALSE} :
          LET r == fetchAllNodePools(mode, migs, allocated,
                                     [err |-> listErr, NodePools |-> nodePools],
                                     templateErr)
          IN  /\ allocated + Len(r.regs) <= MaxMigs
              /\ migs' = r.migs
              /\ allocated' = allocated + Len(r.regs)
              /\ registered' =
                   [g \in GroupRefs |->
                      LET ks == {k \in 1..Len(r.regs) : r.regs[k].GceRef = g}
                      IN  IF ks = {} THEN registered[g]
                          ELSE r.regs[CHOOSE k \in ks : \A j \in ks : j <= k]]
              /\ last' = [NoCall EXCEPT !.op = "fetchAllNodePools", !.err = r.err,
                            !.regs = r.regs, !.rets = r.rets,
                            !.templateErr = templateErr]
              /\ UNCHANGED <<mode, migCache, cloudOwner, nodePools, scanned>>
              /\ UNCHANGED <<waitVars, threadVars>>

\* lines 136-142: one run of the background refresher
Refresh ==
    \E fail \in FailPlans(Len(migs)) :
       LET r == regenerateCache(migCache, migs, cloudOwner, fail)
       IN  /\ migCache' = r.migCache
           /\ migs' = r.migs
           /\ scanned' = IF r.err = NoErr THEN Reported(migs, cloudOwner) ELSE scanned
           /\ last' = [NoCall EXCEPT !.op = "regenerateCache", !.err = r.err,
                         !.calls = r.calls, !.regens = 1,
                         !.installed = (r.err = NoErr)]
           /\ UNCHANGED <<mode, allocated, cloudOwner, nodePools, registered>>
           /\ UNCHANGED <<waitVars, threadVars>>

\* the failure plans that make a difference to a lookup of instance
LookupPlans(instance) ==
    IF GetMigForInstance(migCache, migs, cloudOwner, instance, NoFail).regens = 0
    THEN {NoFail} ELSE FailPlans(Len(migs))

GetMigForInstanceCall ==
    \E instance \in Instances : \E fail \in LookupPlans(instance) :
       LET r == GetMigForInstance(migCache, migs, cloudOwner, instance, fail)
       IN  /\ migCache' = r.migCache
           /\ scanned' = IF Installs(r) = 1 THEN Reported(migs, cloudOwner) ELSE scanned
           /\ last' = [NoCall EXCEPT !.op = "GetMigForInstance", !.inst = instance,
                         !.mig = r.mig, !.err = r.err,
                         !.calls = r.calls, !.regens = r.regens,
                         !.installed = (Installs(r) = 1)]
           /\ UNCHANGED <<mode, migs, allocated, cloudOwner, nodePools, registered>>
           /\ UNCHANGED <<waitVars, threadVars>>

\* the instance lists handed to DeleteInstances: the sequences of distinct
\* instances
InstanceLists ==
    {l \in UNION {[1..n -> Instances] : n \in 0..MaxDelete} :
        \A a, b \in 1..Len(l) : a # b => l[a] # l[b]}

\* what a lookup of instance i returns in the current state when no
\* collaborator call fails
Resolve(i) == GetMigForInstance(migCache, migs, cloudOwner, i, NoFail).mig

\* the failure plans that make a difference to DeleteInstances(instances):
\* none, or a failed collaborator call in one of the regenerations the call
\* makes (GetMigForInstance wraps every such failure alike, line 330)
DeletePlans(instances) ==
    LET c == DeleteInstancesCheck(migCache, migs, cloudOwner, instances, 0, NoFail)
    IN  {[at |-> 0, fail |-> NoFail]} \cup
        {[at |-> a, fail |-> [group |-> 1, call |-> "Get"]] : a \in 1..c.regens}

DeleteInstancesCall ==
    \E instances \in InstanceLists : \E plan \in DeletePlans(instances) :
       LET c == DeleteInstancesCheck(migCache, migs, cloudOwner, instances,
                                     plan.at, plan.fail)
           groups == {Resolve(instances[j]).GceRef : j \in 1..Len(instances)}
                        \ {NoOwner}
           unresolved == \E j \in 1..Len(instances) :
                            Resolve(instances[j]).ptr = NilMig.ptr
           call == [NoCall EXCEPT !.op = "DeleteInstances", !.n = Len(instances),
                      !.groups = groups, !.unresolved = unresolved]
       IN  /\ migCache' = c.migCache
           /\ scanned' = IF c.installs > 0 THEN Reported(migs, cloudOwner) ELSE scanned
           /\ IF ~c.checked
              THEN /\ last' = [call EXCEPT !.err = c.err]
                   /\ UNCHANGED cloudOwner
              ELSE \E reqErr \in {NoErr, ErrDeleteReq} :
                   \E waitErr \in IF reqErr = NoErr THEN WaitForOpResults ELSE {NoErr} :
                      LET d == DeleteInstancesRequest(c.commonMig, instances,
                                                      reqErr, waitErr)
                      IN  /\ last' = [call EXCEPT !.err = d.err, !.mig = c.commonMig,
                                        !.mutating = d.mutating]
                          /\ cloudOwner' =
                               IF d.accepted
                               THEN [i \in Instances |->
                                       IF /\ \E j \in 1..Len(instances) : instances[j] = i
                                          /\ cloudOwner[i] = c.commonMig.GceRef
                                       THEN NoOwner ELSE cloudOwner[i]]
                               ELSE cloudOwner
           /\ UNCHANGED <<mode, migs, allocated, nodePools, registered>>
           /\ UNCHANGED <<waitVars, threadVars>>

SetMigSizeCall ==
    \E k \in 1..Len(migs), size \in {1} :
    \E resizeErr \in {NoErr, ErrResize} :
    \E waitErr \in IF resizeErr = NoErr THEN WaitForOpResults ELSE {NoErr} :
       LET r == SetMigSize(migs[k].config, size, resizeErr, waitErr)
       IN  /\ last' = [NoCall EXCEPT !.op = "SetMigSize", !.mig = migs[k].config,
                         !.err = r.err, !.mutating = r.mutating]
           /\ UNCHANGED <<mode, migs, migCache, allocated, cloudOwner, nodePools,
                          scanned, registered>>
           /\ UNCHANGED <<waitVars, threadVars>>

Next ==
    \/ CloudChange
    \/ RegisterMigCall
    \/ FetchAllNodePoolsCall
    \/ Refresh
    \/ GetMigForInstanceCall
    \/ DeleteInstancesCall
    \/ SetMigSizeCall

\* the whole manager
Spec == Init /\ [][Next]_vars

\* the manager under registrations, regenerations and lookups
NextLookup ==
    \/ CloudChange
    \/ RegisterMigCall
    \/ FetchAllNodePoolsCall
    \/ Refresh
    \/ GetMigForInstanceCall

SpecLookup == Init /\ [][NextLookup]_vars

\* the manager under registrations, regenerations and the mutating operations
NextMutate ==
    \/ CloudChange
    \/ RegisterMigCall
    \/ Refresh
    \/ DeleteInstancesCall
    \/ SetMigSizeCall

SpecMutate == Init /\ [][NextMutate]_vars

\* the registry under registrations and discovery, for every listing the
\* cluster may return
InitRegistry ==
    /\ InitManager
    /\ cloudOwner = [i \in Instances |-> NoOwner]
    /\ nodePools \in Listings
    /\ NoWait
    /\ NoThreads

\* the cluster's node pools change
NodePoolsChange ==
    /\ \E l \in Listings : l # nodePools /\ nodePools' = l
    /\ last' = [NoCall EXCEPT !.op = "cluster"]
    /\ UNCHANGED <<mode, migs, migCache, allocated, cloudOwner, scanned, registered>>
    /\ UNCHANGED <<waitVars, threadVars>>

NextRegistry ==
    \/ NodePoolsChange
    \/ RegisterMigCall
    \/ FetchAllNodePoolsCall

SpecRegistry == InitRegistry /\ [][NextRegistry]_vars

\* the cloud in which g1 and g2 have one instance each
ScenarioCloud ==
    [i \in Instances |-> IF i = IA1 THEN G1 ELSE IF i = IB1 THEN G2 ELSE NoOwner]

\* the autoscaled node pool, which the cluster lists first, disappears
NodePoolRemoved ==
    /\ nodePools = ScenarioListing
    /\ nodePools' = Tail(nodePools)
    /\ last' = [NoCall EXCEPT !.op = "cluster"]
    /\ UNCHANGED <<mode, migs, migCache, allocated, cloudOwner, scanned, registered>>
    /\ UNCHANGED <<waitVars, threadVars>>

InitWhole ==
    /\ InitManager
    /\ cloudOwner = ScenarioCloud
    /\ nodePools = ScenarioListing
    /\ NoWait
    /\ NoThreads

NextWhole ==
    \/ NodePoolRemoved
    \/ RegisterMigCall
    \/ FetchAllNodePoolsCall
    \/ Refresh
    \/ GetMigForInstanceCall
    \/ DeleteInstancesCall
    \/ SetMigSizeCall

\* every operation of the manager, one call at a time, while node pools
\* disappear from the cluster
SpecWhole == InitWhole /\ [][NextWhole]_vars

(***************************************************************************)
(* waitForOp (lines 253-266), statement by statement. Time passes in the    *)
(* blocking calls only: ZoneOperations.Get takes up to MaxPollLatency poll  *)
(* intervals, time.Sleep takes operationPollInterval.                       *)
(***************************************************************************)
\* what one ZoneOperations.Get call answers: an error, or a status
PollAnswers == {"error", "RUNNING", "DONE"}
PollLatencies == {k * operationPollInterval : k \in 0..MaxPollLatency}

\* line 254: the loop condition
WaitCondition(e) == e < operationWaitTimeout

\* line 265: what the call returns when the loop condition fails
waitForOpTimeout_nil == NoErr

waitForOpTimeout == ErrTimeout

\* lines 256-263: where the call goes after a ZoneOperations.Get answer
AfterPoll_errorTerminal(answer) ==
    IF answer = "DONE" THEN [wpc |-> "returned", wret |-> NoErr]
    ELSE IF answer = "error" THEN [wpc |-> "returned", wret |-> ErrGet]
    ELSE [wpc |-> "sleep", wret |-> NoErr]

AfterPoll_doneAfterSleep(answer) ==
    [wpc |-> "sleep", wret |-> NoErr]

AfterPoll(answer) ==
    IF answer = "DONE"
    THEN [wpc |-> "returned", wret |-> NoErr]
    ELSE [wpc |-> "sleep", wret |-> NoErr]

\* the call has just been made: start := time.Now()
InitWait ==
    /\ InitManager
    /\ cloudOwner = [i \in Instances |-> NoOwner]
    /\ nodePools = ScenarioListing
    /\ NoThreads
    /\ wpc = "cond"
    /\ elapsed = 0
    /\ polls = 0
    /\ sleeps = 0
    /\ failedPolls = 0
    /\ firstPoll = "none"
    /\ lastPoll = "none"
    /\ wret = NoErr

\* line 254: time.Since(start) < operationWaitTimeout, and line 265
WaitTest ==
    /\ wpc = "cond"
    /\ IF WaitCondition(elapsed)
       THEN wpc' = "poll" /\ wret' = wret
       ELSE wpc' = "returned" /\ wret' = waitForOpTimeout
    /\ UNCHANGED <<elapsed, polls, sleeps, failedPolls, firstPoll, lastPoll>>
    /\ UNCHANGED <<managerVars, threadVars>>

\* lines 256-263: one ZoneOperations.Get call
WaitPoll ==
    /\ wpc = "poll"
    /\ \E answer \in PollAnswers, latency \in PollLatencies :
          /\ elapsed' = elapsed + latency
          /\ polls' = polls + 1
          /\ failedPolls' = IF answer = "error" THEN failedPolls + 1 ELSE failedPolls
          /\ firstPoll' = IF polls = 0 THEN answer ELSE firstPoll
          /\ lastPoll' = answer
          /\ wpc' = AfterPoll(answer).wpc
          /\ wret' = AfterPoll(answer).wret
    /\ UNCHANGED sleeps
    /\ UNCHANGED <<managerVars, threadVars>>

\* line 254: time.Sleep(operationPollInterval)
WaitSleep ==
    /\ wpc = "sleep"
    /\ elapsed' = elapsed + operationPollInterval
    /\ sleeps' = sleeps + 1
    /\ wpc' = "cond"
    /\ UNCHANGED <<polls, failedPolls, firstPoll, lastPoll, wret>>
    /\ UNCHANGED <<managerVars, threadVars>>

NextWait ==
    \/ WaitTest
    \/ WaitPoll
    \/ WaitSleep

\* one call of waitForOp whose collaborator calls and sleeps return
SpecWait == InitWait /\ [][NextWait]_vars /\ WF_vars(NextWait)

(***************************************************************************)
(* The goroutines that share one manager, statement by statement: the       *)
(* refresher started at line 136, a caller of GetMigForInstance and         *)
(* DeleteInstances, and a caller of RegisterMig and fetchAllNodePools.      *)
(* A goroutine is at a label: "idle" between calls, the statement it is     *)
(* about to execute otherwise. A collaborator call is one step, taken when  *)
(* the call returns; until then the goroutine is blocked at its label.      *)
(***************************************************************************)
Free == "free"
Refresher == "refresher"
Caller == "caller"
Registrar == "registrar"
Threads == {Refresher, Caller, Registrar}

\* the local variables of a goroutine. stack: the labels the calls in
\* progress return to; todo: the Migs fetchAllNodePools has yet to register;
\* group: the registered group that owns every instance handed to
\* DeleteInstances, if there is one; requests: the delete requests sent.
NoFrame == [op |-> "none", instances |-> <<>>, j |-> 0, commonMig |-> NilMig,
            instance |-> NoOwner, mig |-> NilMig, err |-> NoErr, snap |-> <<>>,
            stack |-> <<>>, todo |-> <<>>, group |-> NoOwner, requests |-> 0]

\* the labels at which a goroutine is blocked in a collaborator call:
\* lines 349-366, lines 219-227, lines 294-298
BlockingLabels == {"scan", "register_template", "delete_request"}
\* the labels at which a goroutine reads or writes m.migCache:
\* line 321, lines 332-333, line 369
CacheLabels == {"lookup_fast", "lookup_after", "scan"}
\* the labels at which a goroutine waits for a mutex: lines 137 and 319,
\* lines 200 and 305
CacheLockLabels == {"refresher_lock", "lookup_lock"}
MigsLockLabels == {"getMigs_lock", "register_lock"}

\* what the cloud reports to a scan of the snapshot snap
SnapshotView(snap, owner) ==
    [i \in {i \in Instances : \E k \in 1..Len(snap) : snap[k].config.GceRef = owner[i]} |->
        snap[CHOOSE k \in 1..Len(snap) : snap[k].config.GceRef = owner[i]].config]

\* the failures of a scan of n groups: none, or one InstanceGroupManagers.Get
ScanPlans(n) == {NoFail} \cup {[group |-> k, call |-> "Get"] : k \in 1..n}

\* what the caller hands to GetMigForInstance: an instance of g1, and an
\* instance no group owns
CallerInstances == {IA1, IX1}
\* what the caller hands to DeleteInstances: no instance, an instance of g1,
\* an instance of g1 and one of g2
CallerLists == {<<>>, <<IA1>>, <<IA1, IB1>>}

\* what fetchAllNodePools does at line 130, when the cluster lists
\* ScenarioListing
Discovered ==
    fetchAllNodePools(ModeGKE, <<>>, 0, [err |-> NoErr, NodePools |-> ScenarioListing],
                      FALSE)

\* the manager as CreateGceManager returns it in GKE mode, discovery done
\* and the refresher just started
InitThreads ==
    /\ mode = ModeGKE
    /\ migs = Discovered.migs
    /\ migCache = EmptyCache
    /\ allocated = Len(Discovered.regs)
    /\ scanned = [i \in Instances |-> NoOwner]
    /\ registered = [g \in GroupRefs |-> NilMig]
    /\ last = NoCall
    /\ cloudOwner = ScenarioCloud
    /\ nodePools = ScenarioListing
    /\ NoWait
    /\ cacheMutex = Free
    /\ migsMutex = Free
    /\ pc = [p \in Threads |-> "idle"]
    /\ frame = [p \in Threads |-> NoFrame]
    /\ built = EmptyCache

\* goroutine p goes to label l with the locals f
Goto(p, l, f) ==
    /\ pc' = [pc EXCEPT ![p] = l]
    /\ frame' = [frame EXCEPT ![p] = f]

\* goroutine p returns from the call in progress to the label on top of its
\* stack, with the locals f
Return(p, f) ==
    Goto(p, Head(f.stack), [f EXCEPT !.stack = Tail(f.stack)])

\* line 136: wait.Forever runs the closure again
RefresherTick_untilFilled ==
    /\ pc[Refresher] = "idle"
    /\ migCache = EmptyCache
    /\ Goto(Refresher, "refresher_lock", [NoFrame EXCEPT !.op = "refresh"])
    /\ UNCHANGED <<cacheMutex, migsMutex, built>>
    /\ UNCHANGED <<managerVars, waitVars>>

RefresherTick ==
    /\ pc[Refresher] = "idle"
    /\ Goto(Refresher, "refresher_lock", [NoFrame EXCEPT !.op = "refresh"])
    /\ UNCHANGED <<cacheMutex, migsMutex, built>>
    /\ UNCHANGED <<managerVars, waitVars>>

\* lines 137 and 319: m.cacheMutex.Lock() returns
LockCacheMutex_noLock(p) ==
    /\ pc[p] \in CacheLockLabels
    /\ cacheMutex' = cacheMutex
    /\ IF pc[p] = "refresher_lock"
       THEN \* line 139 calls regenerateCache, which calls getMigs (line 345)
            Goto(p, "getMigs_lock",
                 [frame[p] EXCEPT !.stack = <<"scan", "refresher_unlock">>])
       ELSE Goto(p, "lookup_fast", frame[p])
    /\ UNCHANGED <<migsMutex, built>>
    /\ UNCHANGED <<managerVars, waitVars>>

LockCacheMutex(p) ==
    /\ pc[p] \in CacheLockLabels
    /\ cacheMutex = Free
    /\ cacheMutex' = p
    /\ IF pc[p] = "refresher_lock"
       THEN \* line 139 calls regenerateCache, which calls getMigs (line 345)
            Goto(p, "getMigs_lock",
                 [frame[p] EXCEPT !.stack = <<"scan", "refresher_unlock">>])
       ELSE Goto(p, "lookup_fast", frame[p])
    /\ UNCHANGED <<migsMutex, built>>
    /\ UNCHANGED <<managerVars, waitVars>>

\* lines 200 and 305: m.migsMutex.Lock() returns
LockMigsMutex(p) ==
    /\ pc[p] \in MigsLockLabels
    /\ migsMutex = Free
    /\ migsMutex' = p
    /\ Goto(p, IF pc[p] = "getMigs_lock" THEN "getMigs_copy" ELSE "register_update",
            frame[p])
    /\ UNCHANGED <<cacheMutex, built>>
    /\ UNCHANGED <<managerVars, waitVars>>

\* lines 306-314: getMigs copies the registry and returns
GetMigsCopy_keepsLock(p) ==
    /\ pc[p] = "getMigs_copy"
    /\ migsMutex' = migsMutex
    /\ Return(p, [frame[p] EXCEPT !.snap = getMigs(migs)])
    /\ UNCHANGED <<cacheMutex, built>>
    /\ UNCHANGED <<managerVars, waitVars>>

GetMigsCopy(p) ==
    /\ pc[p] = "getMigs_copy"
    /\ migsMutex' = Free
    /\ Return(p, [frame[p] EXCEPT !.snap = getMigs(migs)])
    /\ UNCHANGED <<cacheMutex, built>>
    /\ UNCHANGED <<managerVars, waitVars>>

\* lines 345-370: the collaborator calls of regenerateCache return, over the
\* snapshot its getMigs call took, and the new map is installed
Scan(p) ==
    /\ pc[p] = "scan"
    /\ \E fail \in ScanPlans(Len(frame[p].snap)) :
          LET r == regenerateCache(migCache, frame[p].snap, cloudOwner, fail)
          IN  /\ migCache' = r.migCache
              /\ built' = IF r.err = NoErr
                          THEN SnapshotView(frame[p].snap, cloudOwner) ELSE built
              /\ Return(p, [frame[p] EXCEPT !.err = r.err, !.snap = <<>>])
    /\ UNCHANGED <<cacheMutex, migsMutex>>
    /\ UNCHANGED <<mode, migs, allocated, cloudOwner, nodePools, scanned, registered, last>>
    /\ UNCHANGED waitVars

\* lines 138-141: the closure logs the error and returns, unlocking
RefresherUnlock ==
    /\ pc[Refresher] = "refresher_unlock"
    /\ cacheMutex' = Free
    /\ Goto(Refresher, "idle", NoFrame)
    /\ UNCHANGED <<migsMutex, built>>
    /\ UNCHANGED <<managerVars, waitVars>>

\* line 318: a goroutine calls GetMigForInstance
CallGetMigForInstance ==
    /\ pc[Caller] = "idle"
    /\ \E instance \in CallerInstances :
          Goto(Caller, "lookup_lock",
               [NoFrame EXCEPT !.op = "GetMigForInstance", !.instance = instance,
                               !.stack = <<"idle">>])
    /\ UNCHANGED <<cacheMutex, migsMutex, built>>
    /\ UNCHANGED <<managerVars, waitVars>>

\* lines 321-325: the fast path; on a miss, getMigs is called for the loop
\* of line 325. A return unlocks (line 320).
LookupFast(p) ==
    /\ pc[p] = "lookup_fast"
    /\ IF frame[p].instance \in DOMAIN migCache
       THEN /\ cacheMutex' = Free
            /\ Return(p, [frame[p] EXCEPT !.mig = migCache[frame[p].instance],
                                          !.err = NoErr])
       ELSE /\ cacheMutex' = cacheMutex
            /\ Goto(p, "getMigs_lock",
                    [frame[p] EXCEPT !.stack = <<"lookup_loop">> \o @])
    /\ UNCHANGED <<migsMutex, built>>
    /\ UNCHANGED <<managerVars, waitVars>>

\* lines 325-329 and 339: the loop over the snapshot up to the first record
\* that may own the instance, for which regenerateCache is called
LookupLoop(p) ==
    /\ pc[p] = "lookup_loop"
    /\ IF \E k \in 1..Len(frame[p].snap) : MayBelongTo(frame[p].snap[k], frame[p].instance)
       THEN /\ cacheMutex' = cacheMutex
            /\ Goto(p, "getMigs_lock",
                    [frame[p] EXCEPT !.snap = <<>>,
                                     !.stack = <<"scan", "lookup_after">> \o @])
       ELSE /\ cacheMutex' = Free
            /\ Return(p, [frame[p] EXCEPT !.snap = <<>>, !.mig = NilMig, !.err = NoErr])
    /\ UNCHANGED <<migsMutex, built>>
    /\ UNCHANGED <<managerVars, waitVars>>

\* lines 329-335: after regenerateCache returned; every branch returns and
\* unlocks (line 320)
LookupAfter_keepsLockOnError(p) ==
    /\ pc[p] = "lookup_after"
    /\ cacheMutex' = IF frame[p].err # NoErr THEN cacheMutex ELSE Free
    /\ Return(p, IF frame[p].err # NoErr
                 THEN [frame[p] EXCEPT !.mig = NilMig, !.err = ErrLookup]
                 ELSE IF frame[p].instance \in DOMAIN migCache
                 THEN [frame[p] EXCEPT !.mig = migCache[frame[p].instance]]
                 ELSE [frame[p] EXCEPT !.mig = NilMig, !.err = ErrNotInMig])
    /\ UNCHANGED <<migsMutex, built>>
    /\ UNCHANGED <<managerVars, waitVars>>

LookupAfter(p) ==
    /\ pc[p] = "lookup_after"
    /\ cacheMutex' = Free
    /\ Return(p, IF frame[p].err # NoErr
                 THEN [frame[p] EXCEPT !.mig = NilMig, !.err = ErrLookup]
                 ELSE IF frame[p].instance \in DOMAIN migCache
                 THEN [frame[p] EXCEPT !.mig = migCache[frame[p].instance]]
                 ELSE [frame[p] EXCEPT !.mig = NilMig, !.err = ErrNotInMig])
    /\ UNCHANGED <<migsMutex, built>>
    /\ UNCHANGED <<managerVars, waitVars>>

\* the registered group that owns every instance of the list, or NoOwner
CommonGroup(instances) ==
    IF /\ Len(instances) > 0
       /\ cloudOwner[instances[1]] \in RegisteredRefs
       /\ \A k \in 1..Len(instances) : cloudOwner[instances[k]] = cloudOwner[instances[1]]
    THEN cloudOwner[instances[1]]
    ELSE NoOwner

\* lines 269-273: a goroutine calls DeleteInstances
CallDeleteInstances ==
    /\ pc[Caller] = "idle"
    /\ \E instances \in CallerLists :
          LET f == [NoFrame EXCEPT !.op = "DeleteInstances", !.instances = instances,
                                   !.group = CommonGroup(instances)]
          IN  IF Len(instances) = 0
              THEN Goto(Caller, "delete_returned", f)
              ELSE Goto(Caller, "lookup_lock",
                        [f EXCEPT !.instance = instances[1],
                                  !.stack = <<"delete_first">>])
    /\ UNCHANGED <<cacheMutex, migsMutex, built>>
    /\ UNCHANGED <<managerVars, waitVars>>

\* lines 273-278: the first lookup returned
DeleteFirst ==
    /\ pc[Caller] = "delete_first"
    /\ IF frame[Caller].err # NoErr
       THEN Goto(Caller, "delete_returned", frame[Caller])
       ELSE Goto(Caller, "lookup_lock",
                 [frame[Caller] EXCEPT !.commonMig = frame[Caller].mig, !.j = 1,
                                       !.instance = frame[Caller].instances[1],
                                       !.stack = <<"delete_loop">>])
    /\ UNCHANGED <<cacheMutex, migsMutex, built>>
    /\ UNCHANGED <<managerVars, waitVars>>

\* lines 277-285: the lookup of instances[j] returned
DeleteLoop ==
    /\ pc[Caller] = "delete_loop"
    /\ LET f == frame[Caller]
       IN  IF f.err # NoErr
           THEN Goto(Caller, "delete_returned", f)
           ELSE IF f.mig.ptr # f.commonMig.ptr
           THEN Goto(Caller, "delete_returned", [f EXCEPT !.err = ErrCrossMig])
           ELSE IF f.j < Len(f.instances)
           THEN Goto(Caller, "lookup_lock",
                     [f EXCEPT !.j = f.j + 1, !.instance = f.instances[f.j + 1],
                               !.stack = <<"delete_loop">>])
           ELSE Goto(Caller, "delete_request", f)
    /\ UNCHANGED <<cacheMutex, migsMutex, built>>
    /\ UNCHANGED <<managerVars, waitVars>>

\* lines 287-301: the request and waitForOp return
DeleteRequest ==
    /\ pc[Caller] = "delete_request"
    /\ \E reqErr \in {NoErr, ErrDeleteReq} :
       \E waitErr \in IF reqErr = NoErr THEN WaitForOpResults ELSE {NoErr} :
          LET f == frame[Caller]
              d == DeleteInstancesRequest(f.commonMig, f.instances, reqErr, waitErr)
          IN  /\ Goto(Caller, "delete_returned",
                      [f EXCEPT !.err = d.err, !.requests = d.mutating])
              /\ cloudOwner' =
                    IF d.accepted
                    THEN [i \in Instances |->
                            IF /\ \E j \in 1..Len(f.instances) : f.instances[j] = i
                               /\ cloudOwner[i] = f.commonMig.GceRef
                            THEN NoOwner ELSE cloudOwner[i]]
                    ELSE cloudOwner
    /\ UNCHANGED <<cacheMutex, migsMutex, built>>
    /\ UNCHANGED <<mode, migs, migCache, allocated, nodePools, scanned, registered, last>>
    /\ UNCHANGED waitVars

\* the caller of DeleteInstances goes on with what it was returned
DeleteReturned ==
    /\ pc[Caller] = "delete_returned"
    /\ Goto(Caller, "idle", NoFrame)
    /\ UNCHANGED <<cacheMutex, migsMutex, built>>
    /\ UNCHANGED <<managerVars, waitVars>>

\* line 199: a goroutine calls RegisterMig with a Mig it has just built
\* for g1
CallRegisterMig ==
    /\ pc[Registrar] = "idle"
    /\ allocated < MaxMigs
    /\ Goto(Registrar, "register_lock",
            [NoFrame EXCEPT !.op = "RegisterMig",
                            !.todo = <<NewMig(allocated + 1, G1, 0, 10, FALSE)>>])
    /\ allocated' = allocated + 1
    /\ UNCHANGED <<cacheMutex, migsMutex, built>>
    /\ UNCHANGED <<mode, migs, migCache, cloudOwner, nodePools, scanned, registered, last>>
    /\ UNCHANGED waitVars

\* lines 154-191: a goroutine calls fetchAllNodePools; NodePools.List
\* returns and the Migs of the eligible pools are built
CallFetchAllNodePools ==
    /\ pc[Registrar] = "idle"
    /\ mode = ModeGKE
    /\ LET r == fetchAllNodePools(mode, migs, allocated,
                                  [err |-> NoErr, NodePools |-> nodePools], FALSE)
       IN  /\ Len(r.regs) > 0
           /\ allocated + Len(r.regs) <= MaxMigs
           /\ allocated' = allocated + Len(r.regs)
           /\ Goto(Registrar, "register_lock",
                   [NoFrame EXCEPT !.op = "fetchAllNodePools", !.todo = r.regs])
    /\ UNCHANGED <<cacheMutex, migsMutex, built>>
    /\ UNCHANGED <<mode, migs, migCache, cloudOwner, nodePools, scanned, registered, last>>
    /\ UNCHANGED waitVars

\* lines 203-217: the registry is updated
RegisterUpdate ==
    /\ pc[Registrar] = "register_update"
    /\ migs' = RegisterMig(migs, Head(frame[Registrar].todo), FALSE).migs
    /\ Goto(Registrar, "register_template", frame[Registrar])
    /\ UNCHANGED <<cacheMutex, migsMutex, built>>
    /\ UNCHANGED <<mode, migCache, allocated, cloudOwner, nodePools, scanned, registered, last>>
    /\ UNCHANGED waitVars

\* lines 219-228: the calls of the template builder return, and RegisterMig
\* returns, unlocking (line 201); fetchAllNodePools goes on with its loop
RegisterTemplate ==
    /\ pc[Registrar] = "register_template"
    /\ migsMutex' = Free
    /\ LET rest == Tail(frame[Registrar].todo)
       IN  IF rest = <<>>
           THEN Goto(Registrar, "idle", NoFrame)
           ELSE Goto(Registrar, "register_lock", [frame[Registrar] EXCEPT !.todo = rest])
    /\ UNCHANGED <<cacheMutex, built>>
    /\ UNCHANGED <<managerVars, waitVars>>

\* the step goroutine p takes when it gets the mutex it waits for
Acquire(p) ==
    \/ LockCacheMutex(p)
    \/ LockMigsMutex(p)

\* the steps goroutine p takes inside a call, and the repetition of the
\* refresher's closure
Proceed(p) ==
    \/ GetMigsCopy(p)
    \/ Scan(p)
    \/ LookupFast(p)
    \/ LookupLoop(p)
    \/ LookupAfter(p)
    \/ p = Refresher /\ (RefresherTick \/ RefresherUnlock)
    \/ p = Caller /\ (DeleteFirst \/ DeleteLoop \/ DeleteRequest \/ DeleteReturned)
    \/ p = Registrar /\ (RegisterUpdate \/ RegisterTemplate)

\* the calls the callers make
Call ==
    \/ CallGetMigForInstance
    \/ CallDeleteInstances
    \/ CallRegisterMig
    \/ CallFetchAllNodePools

NextThreads ==
    \/ Call
    \/ \E p \in Threads : Acquire(p)
    \/ \E p \in Threads : Proceed(p)

\* Fairness: wait.Forever runs the closure again and again, a statement of
\* a call in progress is executed and a collaborator call returns (weak
\* fairness); a goroutine waiting for a mutex that is free again and again
\* gets it (strong fairness). Callers need not call.
FairThreads ==
    /\ \A p \in Threads : WF_vars(Proceed(p))
    /\ \A p \in Threads : SF_vars(Acquire(p))

SpecThreads == InitThreads /\ [][NextThreads]_vars /\ FairThreads

(***************************************************************************)
(* The claims.                                                              *)
(***************************************************************************)

\* C1: after a regeneration that returned without error, a lookup of an
\* instance the cloud reported to that scan as a member of registered group G
\* returns a Mig of identity G and no error, whichever collaborator calls
\* would fail, for as long as that cache stands.
C1_LookupReturnsScannedGroup ==
    /\ \A i \in Instances :
          scanned[i] # NoOwner =>
             \A fail \in FailPlans(Len(migs)) :
                LET r == GetMigForInstance(migCache, migs, cloudOwner, i, fail)
                IN  /\ r.err = NoErr
                    /\ r.mig.ptr # NilMig.ptr
                    /\ r.mig.GceRef = scanned[i]
                    /\ r.calls = 0
    /\ (last.op = "GetMigForInstance" /\ scanned[last.inst] # NoOwner) =>
          /\ last.err = NoErr
          /\ last.mig.GceRef = scanned[last.inst]

\* a lookup served from a cache built over two registered groups
C1_Witness ==
    /\ last.op = "GetMigForInstance"
    /\ last.regens = 0
    /\ scanned[IA1] = G1 /\ scanned[IB1] = G2
    /\ last.inst = IB1
    /\ last.mig.GceRef = G2

\* whether some registered record of the instance's project and zone has a
\* non-empty basename prefixing the instance's name, or stands for a group
\* whose base instance name in the cloud prefixes it
MatchesSomeBasename(instance) ==
    \E k \in 1..Len(migs) :
       /\ migs[k].config.GceRef.Project = instance.Project
       /\ migs[k].config.GceRef.Zone = instance.Zone
       /\ \/ migs[k].basename # <<>> /\ HasPrefix(instance.Name, migs[k].basename)
          \/ HasPrefix(instance.Name, BaseInstanceName(migs[k].config.GceRef))

\* C2: a lookup of an instance whose name matches no registered group's
\* basename prefix returns "no owning group" without a regeneration and
\* without a collaborator call.
C2_NoRegenerationWithoutPrefixMatch ==
    (last.op = "GetMigForInstance" /\ ~MatchesSomeBasename(last.inst)) =>
       /\ last.regens = 0
       /\ last.calls = 0
       /\ last.mig.ptr = NilMig.ptr
       /\ last.err = NoErr

\* whether some registered group has instance among its members in the cloud
ReportedNow(instance) == Reported(migs, cloudOwner)[instance] # NoOwner

\* C3 as claimed: a lookup that finds no group for an instance no registered
\* group reports ends without an error, unless a collaborator call failed.
C3_UnattributedIsNeverAnError ==
    (/\ last.op = "GetMigForInstance"
     /\ ~ReportedNow(last.inst)
     /\ last.mig.ptr = NilMig.ptr) =>
       last.err \in {NoErr, ErrLookup}

\* C3 as amended: such a lookup returns (nil, nil) exactly when it forced no
\* regeneration; when the regeneration it forced succeeded and the instance
\* is still absent it returns the "does not belong to any configured MIG"
\* error, and when the regeneration failed it returns the wrapped error.
C3_UnattributedOutcome ==
    (/\ last.op = "GetMigForInstance"
     /\ ~ReportedNow(last.inst)
     /\ last.mig.ptr = NilMig.ptr) =>
       \/ last.regens = 0 /\ last.err = NoErr
       \/ last.regens = 1 /\ last.installed /\ last.err = ErrNotInMig
       \/ last.regens = 1 /\ ~last.installed /\ last.err = ErrLookup

\* a lookup whose regeneration succeeded and left the instance absent
C3_Witness ==
    /\ last.op = "GetMigForInstance"
    /\ ~ReportedNow(last.inst)
    /\ last.regens = 1
    /\ last.installed
    /\ last.inst \notin DOMAIN migCache
    /\ last.err = ErrNotInMig

\* C4: after a regeneration that returned without error, every record of the
\* registry carries the base instance name the cloud returned for its group.
C4_BasenameSetByRegeneration ==
    (last.op \in {"regenerateCache", "GetMigForInstance"} /\ last.installed) =>
       \A k \in 1..Len(migs) :
          getMigs(migs)[k].basename = BaseInstanceName(migs[k].config.GceRef)

\* C5: a regeneration in which a collaborator call or a URL parse fails
\* returns the error and leaves migCache as it was, wherever it fails.
C5_FailedRegenerationKeepsCache ==
    [][ (/\ last'.op \in {"regenerateCache", "GetMigForInstance"}
         /\ last'.regens = 1
         /\ ~last'.installed)
        => (last'.err # NoErr /\ migCache' = migCache) ]_vars

\* a regeneration that failed at the second group, over a non-empty cache
C5_Witness ==
    /\ last.op = "regenerateCache"
    /\ last.err = ErrParse
    /\ last.calls = 4
    /\ DOMAIN migCache # {}
    /\ \E i \in Instances : i \notin DOMAIN migCache /\ ReportedNow(i)

\* C6: DeleteInstances over instances that resolve to two different groups
\* returns an error and sends neither a delete nor a resize request.
C6_CrossGroupDeleteRejected ==
    (last.op = "DeleteInstances" /\ Cardinality(last.groups) >= 2) =>
       /\ last.err \notin {NoErr, Panic}
       /\ last.mutating = 0

\* a delete over instances of two groups, rejected by the same-Mig loop
C6_Witness ==
    /\ last.op = "DeleteInstances"
    /\ last.groups = {G1, G2}
    /\ last.err = ErrCrossMig
    /\ last.mutating = 0

\* C7: DeleteInstances over a non-empty list in which an instance resolves to
\* no group returns an error; it neither panics nor sends the delete request.
C7_UnresolvedDeleteRejected ==
    (last.op = "DeleteInstances" /\ last.n > 0 /\ last.unresolved) =>
       /\ last.err \notin {NoErr, Panic}
       /\ last.mutating = 0

\* C8: the registry holds one record per registered identity, and its config
\* is the Mig of the last RegisterMig call for that identity.
C8_OneRecordPerIdentity ==
    /\ \A a, b \in 1..Len(migs) :
          a # b => migs[a].config.GceRef # migs[b].config.GceRef
    /\ \A g \in GroupRefs : registered[g].ptr # NilMig.ptr <=> g \in RegisteredRefs
    /\ \A k \in 1..Len(migs) : migs[k].config = registered[migs[k].config.GceRef]

\* a group registered a second time, with a new Mig object
C8_Witness ==
    /\ last.op = "RegisterMig"
    /\ last.existed
    /\ Len(migs) = 1
    /\ migs[1].config.ptr = 2
    /\ registered[migs[1].config.GceRef].ptr = 2

\* C9: RegisterMig returns true exactly when the identity was not registered
\* before, whether or not the template build fails, and the Mig is in the
\* registry afterwards.
C9_RegisterMigReturnsNew ==
    last.op = "RegisterMig" =>
       /\ last.ret = ~last.existed
       /\ \E k \in 1..Len(migs) : migs[k].config = last.mig

\* a first registration whose template build failed
C9_Witness ==
    /\ last.op = "RegisterMig"
    /\ last.templateErr
    /\ ~last.existed
    /\ last.ret
    /\ \E k \in 1..Len(migs) : migs[k].config = last.mig

\* the identity and bounds of each group C10 expects of a listing: one per
\* instance group URL of each pool that is autoscaled or whose own name
\* contains the autoprovisioning prefix
RECURSIVE ExpectedGroups(_, _)
ExpectedGroups(pools, k) ==
    IF k > Len(pools) THEN <<>>
    ELSE
      LET pool == pools[k]
          autoscaled == pool.Autoscaling.present /\ pool.Autoscaling.Enabled
          autoprovisioned == Contains(pool.Name, nodeAutoprovisioningPrefix)
          groups == [j \in 1..Len(pool.InstanceGroupUrls) |->
                       [ref |-> parseGceUrl(pool.InstanceGroupUrls[j],
                                            "instanceGroupManagers").ref,
                        minSize |-> IF autoscaled THEN pool.Autoscaling.MinNodeCount
                                    ELSE minAutoprovisionedSize,
                        maxSize |-> IF autoscaled THEN pool.Autoscaling.MaxNodeCount
                                    ELSE maxAutoprovisionedSize]]
      IN  (IF autoscaled \/ autoprovisioned THEN groups ELSE <<>>)
             \o ExpectedGroups(pools, k + 1)

\* C10: a discovery that returns without error has registered exactly the
\* groups of the eligible pools, with the bounds the claim gives them.
C10_DiscoveryRegistersEligiblePools ==
    (last.op = "fetchAllNodePools" /\ last.err = NoErr) =>
       [k \in 1..Len(last.regs) |->
           [ref |-> last.regs[k].GceRef, minSize |-> last.regs[k].minSize,
            maxSize |-> last.regs[k].maxSize]]
         = ExpectedGroups(nodePools, 1)

\* C11: a call of waitForOp none of whose polls reports DONE returns, and
\* what it returns is the timeout error, whether the polls fail or report
\* another status.
C11_NeverDoneTimesOut ==
    /\ [](wpc = "returned" /\ lastPoll # "DONE" => wret = ErrTimeout)
    /\ <>(wpc = "returned")

C11_Witness ==
    /\ wpc = "returned"
    /\ wret = ErrTimeout
    /\ failedPolls > 0
    /\ failedPolls < polls

\* C12: waitForOp makes at least one status check before it returns, and
\* when the first check reports DONE it returns nil after that one check,
\* without a sleep.
C12_FirstPollDone ==
    /\ wpc = "returned" => polls >= 1
    /\ firstPoll = "DONE" =>
          /\ wpc = "returned"
          /\ wret = NoErr
          /\ polls = 1
          /\ sleeps = 0

C12_Witness ==
    /\ wpc = "returned"
    /\ firstPoll = "DONE"

\* C13: no step of RegisterMig, fetchAllNodePools, regenerateCache,
\* GetMigForInstance, SetMigSize or DeleteInstances takes a group identity
\* out of the registry, whatever the cluster lists.
C13_RegistryNeverShrinks ==
    [][RegisteredRefs \subseteq {migs'[k].config.GceRef : k \in 1..Len(migs')}]_vars

C13_Witness ==
    /\ last.op = "fetchAllNodePools"
    /\ last.err = NoErr
    /\ G1 \in RegisteredRefs
    /\ \A k \in 1..Len(nodePools) : nodePools[k] # PoolAutoscaled

\* C14: a goroutine blocked in the collaborator calls of regenerateCache
\* holds the cache lock and not the registry lock, so that RegisterMig can
\* take the registry lock and complete meanwhile.
C14_RegistryLockFreeDuringScan ==
    \A p \in Threads : pc[p] = "scan" => cacheMutex = p /\ migsMutex # p

\* a RegisterMig call completed after the regeneration took its snapshot
\* and before it finished
C14_Witness ==
    /\ pc[Refresher] = "scan"
    /\ pc[Registrar] = "idle"
    /\ frame[Refresher].snap[1].config.ptr # migs[1].config.ptr

\* the cache is the cloud's member lists of the registered groups
CacheExact == migCache = SnapshotView(migs, cloudOwner)

\* a regenerateCache call returns an error
FailedScan ==
    \E p \in Threads : pc[p] = "scan" /\ pc'[p] # "scan" /\ frame'[p].err # NoErr

\* C15: if from some time on the cloud's membership and the registry do not
\* change and no regeneration fails, then from some time on the cache is
\* the cloud's member lists of the registered groups, whether or not a
\* lookup is ever made.
C15_RefresherConverges ==
    <>[][cloudOwner' = cloudOwner /\ migs' = migs /\ ~FailedScan]_vars
       => <>[]CacheExact

C15_Witness ==
    /\ pc[Refresher] = "refresher_unlock"
    /\ frame[Refresher].err = NoErr
    /\ migCache # EmptyCache
    /\ CacheExact

\* goroutine p is inside regenerateCache
InRegeneration(p) ==
    \/ pc[p] = "scan"
    \/ pc[p] \in {"getMigs_lock", "getMigs_copy"} /\ Head(frame[p].stack) = "scan"

\* C16: at most one goroutine is inside regenerateCache, a goroutine that
\* reads or writes the cache holds the cache lock, and the cache is the
\* empty map or what the cloud reported to one scan that completed.
C16_RegenerationsExclusive ==
    /\ Cardinality({p \in Threads : InRegeneration(p)}) <= 1
    /\ \A p \in Threads : pc[p] \in CacheLabels => cacheMutex = p
    /\ migCache \in {EmptyCache, built}

\* a lookup waits for the cache lock while the refresher scans
C16_Witness ==
    /\ pc[Refresher] = "scan"
    /\ pc[Caller] = "lookup_lock"
    /\ migCache # EmptyCache

\* C17: a DeleteInstances call over instances that one registered group
\* owns, none of whose regenerations failed, passes the same-Mig loop and
\* sends one delete request.
C17_SameGroupDeletePasses ==
    /\ pc[Caller] = "delete_returned"
    /\ frame[Caller].group # NoOwner
    /\ frame[Caller].err # ErrLookup
    => /\ frame[Caller].err # ErrCrossMig
       /\ frame[Caller].requests = 1

\* C18: a goroutine that holds the registry lock is not blocked in a
\* collaborator call.
C18_NoCallUnderRegistryLock ==
    \A p \in Threads : migsMutex = p => pc[p] \notin BlockingLabels

\* the labels at which a goroutine is outside GetMigForInstance, RegisterMig
\* and the refresher's closure
OutsideLabels ==
    {"idle", "delete_first", "delete_loop", "delete_request", "delete_returned"}

\* the order in which the locks are taken, and their release
LockDiscipline ==
    \A p \in Threads :
       /\ pc[p] \in CacheLockLabels => cacheMutex # p /\ migsMutex # p
       /\ pc[p] \in MigsLockLabels => migsMutex # p
       /\ pc[p] \in OutsideLabels => cacheMutex # p /\ migsMutex # p

\* C20: the cache lock is taken by a goroutine that holds no lock, the
\* registry lock by a goroutine that does not hold it, a goroutine that has
\* returned holds no lock, and every call that was made returns.
C20_NoDeadlock ==
    /\ []LockDiscipline
    /\ \A p \in Threads : []<>(pc[p] = "idle")

\* the three goroutines contend for the two locks
C20_Witness ==
    /\ cacheMutex = Caller
    /\ migsMutex = Registrar
    /\ pc[Caller] = "getMigs_lock"
    /\ pc[Refresher] = "refresher_lock"

\* C19: waitForOp returns nil exactly when a poll reported DONE, however
\* many polls failed before it, and returns no error but the timeout error.
C19_FailedPollNotTerminal ==
    wpc = "returned" =>
       /\ wret \in {NoErr, ErrTimeout}
       /\ wret = NoErr <=> lastPoll = "DONE"

C19_Witness ==
    /\ wpc = "returned"
    /\ wret = NoErr
    /\ failedPolls >= 2

====
